---- MODULE Spec2Model ----
(***************************************************************************)
(* FITSWaveletProcessor (src/wavelet.py): a batch of FITS files is         *)
(* enumerated, each file is loaded, decomposed by a 2D wavelet transform   *)
(* and every band is saved as <prefix>.fits and <prefix>.png.              *)
(*                                                                         *)
(* Spec      the batch: run_batch, process_file, _save_image               *)
(* SpecNorm  one _save_image call on a band drawn from a bounded set       *)
(***************************************************************************)
EXTENDS Integers, Sequences, FiniteSets, TLC

VARIABLES
    level,      \* self.level
    wavelet,    \* self.wavelet
    dir,        \* the names found in self.input_dir
    files,      \* run_batch: the list `files`
    idx,        \* run_batch: number of loop iterations started
    pc,         \* position in run_batch / process_file
    cur,        \* process_file: the locals of the running call
    saves,      \* the _save_image calls of the running process_file call, with
                \* the files each one wrote
    ret,        \* the value process_file returned
    report,     \* the lines run_batch printed, one per file
    dirs,       \* the folders under self.output_dir, with who asked for them
    faults,     \* number of operating-system failures in the running call
    call,       \* SpecNorm: the arguments of the _save_image call
    last        \* SpecNorm: what the _save_image call did

vars == <<level, wavelet, dir, files, idx, pc, cur, saves, ret, report,
          dirs, faults, call, last>>

-----------------------------------------------------------------------------
(* Bounds *)

MaxFiles == 2       \* files in the input folder
MaxLevel == 2       \* decomposition_level is drawn from 1..MaxLevel
MaxFaults == 1      \* operating-system failures (mkdir, writes) per call
MaxCells == 4       \* SpecNorm: a band has at most MaxCells samples
SampleHi == 1       \* SpecNorm: finite samples are in SampleLo..SampleHi

-----------------------------------------------------------------------------
(* Values *)

\* a sample of a band: not-a-number, or a finite number
NaN == [nan |-> TRUE, v |-> 0]
Num(x) == [nan |-> FALSE, v |-> x]
SampleLo == 0 - 1
Samples == {NaN} \cup { Num(x) : x \in SampleLo..SampleHi }

\* the samples a decomposition hands on in the batch
CoeffSamples == {NaN, Num(1)}

\* no shape: the value of resize_to=None, and of what a call did not reach
NoShape == <<>>

RECURSIVE Product(_)
Product(shape) ==
    IF shape = <<>> THEN 1 ELSE Head(shape) * Product(Tail(shape))

\* all arrays of a shape: the shape and the samples in row-major order
Arrays(shape, S) ==
    { [shape |-> shape, samples |-> s] : s \in [1..Product(shape) -> S] }

Min(S) == CHOOSE x \in S : \A y \in S : x <= y
Max(S) == CHOOSE x \in S : \A y \in S : x >= y

-----------------------------------------------------------------------------
(* Strings *)

Digit == <<"0", "1", "2", "3", "4", "5", "6", "7", "8", "9">>

RECURSIVE NatStr(_)
NatStr(n) ==
    IF n < 10 THEN Digit[n + 1] ELSE NatStr(n \div 10) \o Digit[(n % 10) + 1]

\* str(n) of an int, as an f-string formats it
IntStr(n) == IF n < 0 THEN "-" \o NatStr(0 - n) ELSE NatStr(n)

\* Path / name, and str() of it
Join(folder, name) == folder \o "/" \o name

-----------------------------------------------------------------------------
(* _save_image: the normalisation, lines 48-63 *)

\* fixed-point unit of the logarithms: 10^-6
Micro == 1000000

\* the threshold 1e-6 of d_max - d_min, in Micro units
Eps == Micro \div 1000000

\* the white level of the 8-bit image
White == 255

\* floor(Micro * log10(n)) for n in 1..16
Log10Table ==
    <<0, 301029, 477121, 602059, 698970, 778151, 845098, 903089,
      954242, 1000000, 1041392, 1079181, 1113943, 1146128, 1176091, 1204119>>

\* np.log10 of a number >= 1, in Micro units
Log10(x) == Log10Table[x]

\* np.nan_to_num(data, nan=0.0)
NanToNum(samples) ==
    [i \in DOMAIN samples |-> IF samples[i].nan THEN 0 ELSE samples[i].v]

\* ndarray.astype(np.uint8) of a non-negative number: truncation, 8 bits kept
AsUint8(x) == x % 256

Range(f) == { f[i] : i \in DOMAIN f }

\* Rescale with the scale factor 256 for 255
RescaleTo256(log_data, d_min, d_max) ==
    IF d_max - d_min > Eps
    THEN [i \in DOMAIN log_data |->
            ((log_data[i] - d_min) * (White + 1)) \div (d_max - d_min)]
    ELSE [i \in DOMAIN log_data |-> 0]

\* Rescale with a flat band rendered white
RescaleFlatWhite(log_data, d_min, d_max) ==
    IF d_max - d_min > Eps
    THEN [i \in DOMAIN log_data |->
            ((log_data[i] - d_min) * White) \div (d_max - d_min)]
    ELSE [i \in DOMAIN log_data |-> White]

\* (log_data - d_min) / (d_max - d_min) * 255, or zeros_like(log_data)
Rescale(log_data, d_min, d_max) ==
    IF d_max - d_min > Eps
    THEN [i \in DOMAIN log_data |->
            ((log_data[i] - d_min) * White) \div (d_max - d_min)]
    ELSE [i \in DOMAIN log_data |-> 0]

\* lines 49-63 up to the cast: the 8-bit array handed to Image.fromarray.
\* np.min of an empty array raises ValueError.
Normalize(data) ==
    IF Product(data.shape) = 0
    THEN [raised |-> TRUE, shape |-> data.shape, pix |-> <<>>]
    ELSE LET clean_data == NanToNum(data.samples)
             lo == Min(Range(clean_data))
             log_data == [i \in DOMAIN clean_data |-> Log10(clean_data[i] - lo + 1)]
             d_min == Min(Range(log_data))
             d_max == Max(Range(log_data))
             rescaled == Rescale(log_data, d_min, d_max)
         IN  [raised |-> FALSE,
              shape |-> data.shape,
              pix |-> [i \in DOMAIN rescaled |-> AsUint8(rescaled[i])]]

-----------------------------------------------------------------------------
(* _save_image, lines 37-74 *)

\* Image.fromarray of an 8-bit array: one or two dimensions give a grey image,
\* three dimensions an image only with 2, 3 or 4 channels, anything else raises
FromArrayOK(shape) ==
    \/ Len(shape) \in {1, 2}
    \/ Len(shape) = 3 /\ shape[3] \in {2, 3, 4}

\* `if resize_to:` holds for a tuple that is not empty; then
\* img.resize((resize_to[1], resize_to[0]), Image.BILINEAR) gives an image of
\* resize_to[0] rows and resize_to[1] columns; PIL raises on a side that is
\* not positive
ResizeOK(resize_to) ==
    Len(resize_to) >= 2 /\ resize_to[1] > 0 /\ resize_to[2] > 0

\* the outcomes of the two writes: both succeed, hdu.writeto raises,
\* img.save raises
IO == {"ok", "fits_err", "png_err"}

\* One call of _save_image. Everything is inside one try: the first raise
\* skips the rest and is printed, nothing is raised to the caller.
\*   fits, png   whether <prefix>.fits, <prefix>.png were written
\*   png_tried   whether img.save, line 71, was reached
\*   normalised  whether line 63 was reached
\*   img         the normalised 8-bit array, when line 63 was reached
\*   png_shape   (rows, columns) of the image handed to img.save, when reached
\*   printed     whether "Erro ao salvar" was printed
save_image(data, path_prefix, resize_to, io) ==
    LET fits_ok == io # "fits_err"
        norm == Normalize(data)
        norm_ok == fits_ok /\ ~norm.raised
        image_ok == norm_ok /\ FromArrayOK(norm.shape)
        resized_ok == image_ok /\ (resize_to # NoShape => ResizeOK(resize_to))
        png_ok == resized_ok /\ io # "png_err"
    IN  [prefix |-> path_prefix,
         fits |-> fits_ok,
         png |-> png_ok,
         png_tried |-> resized_ok,
         normalised |-> norm_ok,
         img |-> IF norm_ok THEN [shape |-> norm.shape, pix |-> norm.pix]
                 ELSE [shape |-> NoShape, pix |-> <<>>],
         png_shape |-> IF ~resized_ok THEN NoShape
                       ELSE IF resize_to # NoShape
                            THEN <<resize_to[1], resize_to[2]>>
                            ELSE norm.shape,
         printed |-> ~png_ok]

\* the paths a _save_image call left on disk
Written(r) ==
    (IF r.fits THEN {r.prefix \o ".fits"} ELSE {})
    \cup (IF r.png THEN {r.prefix \o ".png"} ELSE {})

-----------------------------------------------------------------------------
(* The input folder and what fits.open finds in a file *)

\* names an input folder can hold: stem and suffix
FileNames ==
    { [stem |-> "m31", suffix |-> ".fits"],
      [stem |-> "m31", suffix |-> ".fit"],
      [stem |-> "ngc1", suffix |-> ".fits"] }

NoFile == [stem |-> "", suffix |-> ""]

\* hdu.data: an array, of which the batch needs the shape, or None
NoData == [present |-> FALSE, shape |-> NoShape]
Data(shape) == [present |-> TRUE, shape |-> shape]

\* shapes of the rasters in the input files: 1 to 4 dimensions
RasterShapes == { <<2>>, <<2, 2>>, <<2, 2, 2>>, <<1, 1, 2, 2>> }

\* the HDU lists of the files that open
HDULists ==
    { <<NoData>>, <<NoData, NoData>> }
    \cup { <<Data(sh)>> : sh \in RasterShapes }
    \cup { <<NoData, Data(<<2, 2>>)>> }

\* a file: fits.open raises on it, or gives an HDU list
Contents ==
    { [readable |-> FALSE, hdus |-> <<>>] }
    \cup { [readable |-> TRUE, hdus |-> h] : h \in HDULists }

\* Path.glob('*' + suffix) on the input folder
Glob(d, suffix) == { f \in d : f.suffix = suffix }

\* the orders in which a glob may list a set of names
Orderings(S) ==
    { q \in [1..Cardinality(S) -> S] : \A i, j \in DOMAIN q : q[i] = q[j] => i = j }

-----------------------------------------------------------------------------
(* Configuration, lines 22-35 *)

output_dir == "PROCESSED"

\* wavelet_type: a name pywt knows, and one it does not
Wavelets == {"haar", "unknown"}

\* pywt.Wavelet(name).dec_len; 0 for a name pywt does not know
DecLen(w) == IF w = "haar" THEN 2 ELSE 0

\* decomposition_level: a positive integer
Levels == 1..MaxLevel

-----------------------------------------------------------------------------
(* pywt.wavedec2, line 91 *)

\* pywt.dwt_coeff_len in the default mode 'symmetric'
CoeffLen(n, w) == (n + DecLen(w) - 1) \div 2

\* one level of the transform works on the last two axes
Halve(shape, w) ==
    [a \in DOMAIN shape |->
        IF a >= Len(shape) - 1 THEN CoeffLen(shape[a], w) ELSE shape[a]]

RECURSIVE Approx(_, _, _)
Approx(shape, w, j) ==
    IF j = 0 THEN shape ELSE Halve(Approx(shape, w, j - 1), w)

\* wavedec2 raises ValueError on fewer than 2 dimensions, an unknown wavelet
\* or a negative level
Wavedec2Raises(shape, w, lvl) ==
    Len(shape) < 2 \/ DecLen(w) = 0 \/ lvl < 0

\* the shapes of [cA_n, (cH_n, cV_n, cD_n), ..., (cH_1, cV_1, cD_1)]; the three
\* bands of a level have one shape
Wavedec2(shape, w, lvl) ==
    <<Approx(shape, w, lvl)>>
    \o [i \in 1..lvl |-> Approx(shape, w, lvl - i + 1)]

-----------------------------------------------------------------------------
(* process_file, lines 76-109 *)

Orientation == <<"_horizontal", "_vertical", "_diagonal">>

\* galaxy_folder = self.output_dir / galaxy_name
GalaxyFolder(name) == Join(output_dir, name.stem)

\* line 94: the prefix of the approximation
CorePrefix(galaxy_folder, galaxy_name) ==
    Join(galaxy_folder, galaxy_name \o "_core_approx")

\* DetailPrefix with the levels counted upwards
DetailPrefixAscending(galaxy_folder, lvl, i, o) ==
    Join(galaxy_folder, "L" \o IntStr(i + 1)) \o Orientation[o]

\* lines 99-104: the prefix of the detail band of loop index i (from 0) and
\* orientation o (1..3)
DetailPrefix(galaxy_folder, lvl, i, o) ==
    Join(galaxy_folder, "L" \o IntStr(lvl - i)) \o Orientation[o]

\* the _save_image calls of lines 94-104, in order: the shape of the band and
\* its prefix. The loop runs over coeffs[1:], level_idx counts from self.level.
SaveCalls(coeffs, lvl, galaxy_folder, galaxy_name) ==
    <<[shape |-> coeffs[1], prefix |-> CorePrefix(galaxy_folder, galaxy_name)]>>
    \o [k \in 1..(3 * (Len(coeffs) - 1)) |->
          [shape |-> coeffs[((k - 1) \div 3) + 2],
           prefix |-> DetailPrefix(galaxy_folder, lvl, (k - 1) \div 3,
                                   ((k - 1) % 3) + 1)]]

\* the locals of a process_file call before its first line
Locals(name) ==
    [filepath |-> name,
     readable |-> FALSE,
     hdus |-> <<>>,
     data |-> NoData,
     orig_shape |-> NoShape,
     transformed |-> NoShape,
     coeffs |-> <<>>,
     k |-> 0]

\* str(e) of the exceptions process_file catches
OpenError == "Empty or corrupt FITS file"
IndexError == "list index out of range"
MkdirError == "Permission denied"
WaveletError == "wavedec2: invalid input"

Result(success, msg) == [success |-> success, msg |-> msg]

\* process_file returns to line 118
Return(success, msg) ==
    /\ ret' = Result(success, msg)
    /\ pc' = "print"

\* Catch without the handler: the exception leaves process_file
Propagate(msg) ==
    /\ pc' = "raised"
    /\ ret' = ret

\* lines 108-109: an exception raised in the try block is returned as
\* (False, str(e))
Catch(msg) == Return(FALSE, msg)

\* lines 78-80: fits.open, then the first HDU's data, or the second's
OpenFile ==
    /\ pc = "open"
    /\ \E c \in Contents :
         IF ~c.readable
         THEN /\ Catch(OpenError)
              /\ cur' = cur
         ELSE IF c.hdus[1].present
         THEN /\ cur' = [cur EXCEPT !.readable = TRUE, !.hdus = c.hdus,
                                   !.data = c.hdus[1]]
              /\ pc' = "check"
              /\ ret' = ret
         ELSE IF Len(c.hdus) < 2
         THEN /\ Catch(IndexError)
              /\ cur' = [cur EXCEPT !.readable = TRUE, !.hdus = c.hdus]
         ELSE /\ cur' = [cur EXCEPT !.readable = TRUE, !.hdus = c.hdus,
                                   !.data = c.hdus[2]]
              /\ pc' = "check"
              /\ ret' = ret
    /\ UNCHANGED <<level, wavelet, dir, files, idx, saves, report, dirs,
                   faults, call, last>>

\* line 83: data[0, :, :] drops the first axis
FirstPlane(shape) == Tail(shape)

\* lines 82-83
CheckData ==
    /\ pc = "check"
    /\ IF ~cur.data.present
       THEN /\ Return(FALSE, "FITS vazio")
            /\ cur' = cur
       ELSE /\ cur' = [cur EXCEPT !.data =
                          IF Len(cur.data.shape) > 2
                          THEN Data(FirstPlane(cur.data.shape))
                          ELSE cur.data]
            /\ pc' = "mkdir"
            /\ ret' = ret
    /\ UNCHANGED <<level, wavelet, dir, files, idx, saves, report, dirs,
                   faults, call, last>>

\* lines 85-88: orig_shape, and the folder of the file; mkdir may raise
MakeFolder ==
    /\ pc = "mkdir"
    /\ \/ /\ cur' = [cur EXCEPT !.orig_shape = cur.data.shape]
          /\ dirs' = dirs \cup {[path |-> GalaxyFolder(cur.filepath), by |-> idx]}
          /\ pc' = "decompose"
          /\ UNCHANGED <<ret, faults>>
       \/ /\ faults < MaxFaults
          /\ faults' = faults + 1
          /\ Catch(MkdirError)
          /\ cur' = [cur EXCEPT !.orig_shape = cur.data.shape]
          /\ dirs' = dirs
    /\ UNCHANGED <<level, wavelet, dir, files, idx, saves, report, call, last>>

\* line 91
Decompose ==
    /\ pc = "decompose"
    /\ IF Wavedec2Raises(cur.data.shape, wavelet, level)
       THEN /\ Catch(WaveletError)
            /\ cur' = [cur EXCEPT !.transformed = cur.data.shape]
       ELSE /\ cur' = [cur EXCEPT !.transformed = cur.data.shape,
                                  !.coeffs = Wavedec2(cur.data.shape, wavelet, level),
                                  !.k = 1]
            /\ pc' = "save"
            /\ ret' = ret
    /\ UNCHANGED <<level, wavelet, dir, files, idx, saves, report, dirs,
                   faults, call, last>>

\* Swallow without the handler of _save_image: what a band raises reaches the
\* handler of process_file
Reraise(r) ==
    IF r.printed THEN Return(FALSE, "Erro ao salvar") ELSE UNCHANGED <<pc, ret>>

\* Reraise for the lossless write alone
ReraiseFits(r) ==
    IF ~r.fits THEN Return(FALSE, "Erro ao salvar") ELSE UNCHANGED <<pc, ret>>

\* lines 73-74: _save_image prints what was raised and returns; its caller
\* sees nothing and goes on
Swallow(r) == UNCHANGED <<pc, ret>>

\* what `saves` keeps of a _save_image call
Saved(r) ==
    [prefix |-> r.prefix, fits |-> r.fits, png |-> r.png, png_tried |-> r.png_tried,
     paths |-> Written(r)]

\* lines 94-104: the next _save_image call of the file
SaveBand ==
    /\ pc = "save"
    /\ LET calls == SaveCalls(cur.coeffs, level, GalaxyFolder(cur.filepath),
                              cur.filepath.stem)
       IN  /\ cur.k <= Len(calls)
           /\ \E data \in Arrays(calls[cur.k].shape, CoeffSamples), io \in IO :
                LET r == save_image(data, calls[cur.k].prefix, cur.orig_shape, io)
                IN  /\ io # "ok" => faults < MaxFaults
                    /\ faults' = IF io # "ok" THEN faults + 1 ELSE faults
                    /\ saves' = Append(saves, Saved(r))
                    /\ Swallow(r)
           /\ cur' = [cur EXCEPT !.k = cur.k + 1]
    /\ UNCHANGED <<level, wavelet, dir, files, idx, report, dirs, call, last>>

\* line 106
ReturnSuccess ==
    /\ pc = "save"
    /\ cur.k > 3 * (Len(cur.coeffs) - 1) + 1
    /\ Return(TRUE, "Sucesso")
    /\ UNCHANGED <<level, wavelet, dir, files, idx, cur, saves, report, dirs,
                   faults, call, last>>

-----------------------------------------------------------------------------
(* run_batch, lines 111-119 *)

\* lines 112-115: the output folder, then the two globs; mkdir may raise, and
\* nothing in run_batch catches it
RunBatch ==
    /\ pc = "start"
    /\ \/ /\ dirs' = dirs \cup {[path |-> output_dir, by |-> 0]}
          /\ \E a \in Orderings(Glob(dir, ".fits")), b \in Orderings(Glob(dir, ".fit")) :
               files' = a \o b
          /\ pc' = "loop"
          /\ faults' = faults
       \/ /\ faults < MaxFaults
          /\ faults' = faults + 1
          /\ pc' = "raised"
          /\ UNCHANGED <<dirs, files>>
    /\ UNCHANGED <<level, wavelet, dir, idx, cur, saves, ret, report, call, last>>

\* lines 116-118: the next file, and the call of process_file on it
CallProcessFile ==
    /\ pc = "loop"
    /\ idx < Len(files)
    /\ idx' = idx + 1
    /\ cur' = Locals(files[idx + 1])
    /\ saves' = <<>>
    /\ faults' = 0
    /\ pc' = "open"
    /\ UNCHANGED <<level, wavelet, dir, files, ret, report, dirs, call, last>>

\* line 119: the message is printed; `success` is not used, and the locals of
\* the call are gone
PrintResult ==
    /\ pc = "print"
    /\ report' = Append(report, [name |-> cur.filepath, msg |-> ret.msg])
    /\ pc' = "loop"
    /\ cur' = Locals(NoFile)
    /\ saves' = <<>>
    /\ UNCHANGED <<level, wavelet, dir, files, idx, ret, dirs, faults, call, last>>

\* the loop is over
EndBatch ==
    /\ pc = "loop"
    /\ idx = Len(files)
    /\ pc' = "done"
    /\ UNCHANGED <<level, wavelet, dir, files, idx, cur, saves, ret, report,
                   dirs, faults, call, last>>

NoBand == [shape |-> NoShape, samples |-> <<>>]
NoArgs == [data |-> NoBand, path_prefix |-> "", resize_to |-> NoShape, io |-> "ok"]
NoCall == save_image(NoBand, "", NoShape, "fits_err")

Init ==
    /\ level \in Levels
    /\ wavelet \in Wavelets
    /\ dir \in { d \in SUBSET FileNames : Cardinality(d) <= MaxFiles }
    /\ files = <<>>
    /\ idx = 0
    /\ pc = "start"
    /\ cur = Locals(NoFile)
    /\ saves = <<>>
    /\ ret = Result(FALSE, "")
    /\ report = <<>>
    /\ dirs = {}
    /\ faults = 0
    /\ call = NoArgs
    /\ last = NoCall

Next ==
    \/ RunBatch
    \/ CallProcessFile
    \/ OpenFile
    \/ CheckData
    \/ MakeFolder
    \/ Decompose
    \/ SaveBand
    \/ ReturnSuccess
    \/ PrintResult
    \/ EndBatch

Spec == Init /\ [][Next]_vars

-----------------------------------------------------------------------------
(* One _save_image call on its own *)

\* the 2D shapes of at most MaxCells samples; an empty band has a side 0
BandShapes ==
    { sh \in (0..MaxCells) \X (0..MaxCells) :
        /\ sh[1] * sh[2] <= MaxCells
        /\ sh[1] * sh[2] = 0 => sh[1] + sh[2] <= 1 }

Bands == UNION { Arrays(sh, Samples) : sh \in BandShapes }

\* resize_to: None, the shape of an input raster, a shape PIL refuses
ResizeTargets == { NoShape, <<4, 4>>, <<0, 4>> }

InitNorm ==
    /\ call \in [data : Bands, path_prefix : {"PROCESSED/m31/L1_horizontal"},
                  resize_to : ResizeTargets, io : IO]
    /\ last = NoCall
    /\ pc = "norm"
    /\ level = 1
    /\ wavelet = "haar"
    /\ dir = {}
    /\ files = <<>>
    /\ idx = 0
    /\ cur = Locals(NoFile)
    /\ saves = <<>>
    /\ ret = Result(FALSE, "")
    /\ report = <<>>
    /\ dirs = {}
    /\ faults = 0

\* lines 37-74, one call
SaveImage ==
    /\ pc = "norm"
    /\ last' = save_image(call.data, call.path_prefix, call.resize_to, call.io)
    /\ pc' = "normed"
    /\ UNCHANGED <<level, wavelet, dir, files, idx, cur, saves, ret, report, dirs,
                   faults, call>>

NextNorm == SaveImage

SpecNorm == InitNorm /\ [][NextNorm]_vars

-----------------------------------------------------------------------------
(* What a process_file call went through, read from its locals *)

\* the file opened and line 79 found an array
LoadedOK == cur.readable /\ cur.data.present

\* line 88 made the folder of the file
FolderOK == [path |-> GalaxyFolder(cur.filepath), by |-> idx] \in dirs

\* line 91 returned
DecomposedOK == cur.coeffs # <<>>

\* the call failed at a step before the first band
EarlyFailure == ~(LoadedOK /\ FolderOK /\ DecomposedOK)

\* _save_image call k did not write both files
BandFailed(k) == ~saves[k].fits \/ ~saves[k].png

SaveFailed == \E k \in DOMAIN saves : BandFailed(k)

\* no HDU of the opened file holds data
AllAbsent == cur.readable /\ \A h \in DOMAIN cur.hdus : ~cur.hdus[h].present

\* the number of bands of a decomposition of depth L
BandCount(L) == 1 + 3 * L

-----------------------------------------------------------------------------
(* C1 *)

\* every file is handed to process_file once, in the order of `files`, and
\* reported before the next one
InOrderOnce ==
    /\ idx <= Len(files)
    /\ Len(report) <= idx /\ idx <= Len(report) + 1
    /\ pc \in {"loop", "done"} => Len(report) = idx
    /\ pc \in {"open", "check", "mkdir", "decompose", "save", "print"} =>
          /\ idx = Len(report) + 1
          /\ cur.filepath = files[idx]
    /\ \A i \in DOMAIN report : report[i].name = files[i]
    /\ pc = "done" => Len(report) = Len(files)

\* no exception leaves process_file: only the mkdir of run_batch, before the
\* first file, can end the batch
NoEscape == pc = "raised" => idx = 0

-----------------------------------------------------------------------------
(* C2 *)

-----------------------------------------------------------------------------
(* C3 *)

\* C3 as stated: the visualization write of a band is attempted even when its
\* lossless write failed, and a failed visualization write leaves the
\* lossless file of the band on disk.
C3_AsStated ==
    \A k \in DOMAIN saves :
        /\ ~saves[k].fits => saves[k].png_tried
        /\ saves[k].fits /\ ~saves[k].png =>
              (saves[k].prefix \o ".fits") \in saves[k].paths

-----------------------------------------------------------------------------
(* C4 *)

LevelName == <<"L1", "L2", "L3", "L4">>

\* the names of the bands of depth L: the approximation, then the levels from
\* L down to 1
ExpectedBands(stem, L) ==
    <<stem \o "_core_approx">>
    \o [k \in 1..(3 * L) |->
          LevelName[L - ((k - 1) \div 3)]
          \o <<"_horizontal", "_vertical", "_diagonal">>[((k - 1) % 3) + 1]]

ExpectedPrefix(stem, L, k) ==
    "PROCESSED/" \o stem \o "/" \o ExpectedBands(stem, L)[k]

\* C4: a file that returns success with depth L >= 1 made exactly 1 + 3L
\* _save_image calls, on <stem>_core_approx and then L<k>_horizontal,
\* L<k>_vertical, L<k>_diagonal for k from L down to 1, all in the folder
\* named after the stem; the 2 * (1 + 3L) paths are pairwise distinct, and
\* the calls that met no error wrote exactly their .fits and .png.
C4_OutputSetAndOrder ==
    pc = "print" /\ ret.success /\ level >= 1 =>
        LET stem == cur.filepath.stem
            n == BandCount(level)
        IN  /\ Len(cur.coeffs) = level + 1
            /\ Len(saves) = n
            /\ \A k \in 1..n : saves[k].prefix = ExpectedPrefix(stem, level, k)
            /\ Cardinality(UNION { { saves[k].prefix \o ".fits",
                                     saves[k].prefix \o ".png" } : k \in 1..n })
                  = 2 * n
            /\ \A k \in 1..n : ~BandFailed(k) =>
                  saves[k].paths = { ExpectedPrefix(stem, level, k) \o ".fits",
                                     ExpectedPrefix(stem, level, k) \o ".png" }

\* a file of depth 2 returned success with all its 7 bands in both formats
C4_Witness ==
    /\ pc = "print"
    /\ ret.success
    /\ level = 2
    /\ Len(saves) = 7
    /\ ~SaveFailed
    /\ saves[2].prefix = "PROCESSED/m31/L2_horizontal"
    /\ saves[7].prefix = "PROCESSED/m31/L1_diagonal"

-----------------------------------------------------------------------------
(* C5 *)

\* C5 as stated: no two files of a batch use the same output folder.
C5_AsStated ==
    \A d1, d2 \in dirs : d1.path = d2.path => d1.by = d2.by

-----------------------------------------------------------------------------
(* C6 *)

\* C6 as stated: a file that opens and holds no data in any HDU returns
\* (False, "FITS vazio"), with no folder made and nothing written.
C6_AsStated ==
    pc = "print" /\ AllAbsent =>
        /\ ret = Result(FALSE, "FITS vazio")
        /\ ~FolderOK
        /\ saves = <<>>

-----------------------------------------------------------------------------
(* C7 *)

\* the array line 79 picked, as the file holds it
LoadedShape ==
    IF cur.hdus[1].present THEN cur.hdus[1].shape ELSE cur.hdus[2].shape

\* C7 as stated: for a raster of 2 or more dimensions, the array handed to
\* wavedec2 and orig_shape have exactly two dimensions.
C7_AsStated ==
    LoadedOK /\ Len(LoadedShape) >= 2 /\ cur.transformed # NoShape =>
        Len(cur.transformed) = 2 /\ Len(cur.orig_shape) = 2

-----------------------------------------------------------------------------
(* C8 *)

\* the samples with not-a-number read as 0
Finite(data) ==
    [i \in DOMAIN data.samples |->
        IF data.samples[i].nan THEN 0 ELSE data.samples[i].v]

Lowest(data) == Min(Range(Finite(data)))
Highest(data) == Max(Range(Finite(data)))

\* C8: the normalisation of a band that is not empty raises nothing; the
\* image has the shape of the band and every pixel is an integer in 0..255;
\* when the range of the logarithms exceeds 1e-6 the lowest sample is black
\* (0) and the highest white (255).
C8_NormalisationRange ==
    pc = "normed" /\ last.fits /\ Product(call.data.shape) > 0 =>
        /\ last.normalised
        /\ last.img.shape = call.data.shape
        /\ DOMAIN last.img.pix = DOMAIN call.data.samples
        /\ \A i \in DOMAIN last.img.pix : last.img.pix[i] \in 0..255
        /\ Log10(Highest(call.data) - Lowest(call.data) + 1) > Eps =>
              \A i \in DOMAIN last.img.pix :
                  /\ Finite(call.data)[i] = Lowest(call.data) => last.img.pix[i] = 0
                  /\ Finite(call.data)[i] = Highest(call.data) => last.img.pix[i] = 255

\* a band with a not-a-number sample was normalised to black, white and a
\* grey in between
C8_Witness ==
    /\ pc = "normed"
    /\ last.normalised
    /\ \E i \in DOMAIN call.data.samples : call.data.samples[i].nan
    /\ \E i, j, m \in DOMAIN last.img.pix :
          /\ last.img.pix[i] = 0
          /\ last.img.pix[j] = 255
          /\ last.img.pix[m] > 0 /\ last.img.pix[m] < 255

-----------------------------------------------------------------------------
(* C9 *)

Flat(data) == Product(data.shape) > 0 /\ Lowest(data) = Highest(data)

\* C9: a band whose samples are all equal once not-a-number is read as 0 is
\* normalised, without an error, to an all-zero image of its shape, and is
\* written in both formats when neither write fails and the target shape is
\* one PIL accepts.
C9_DegenerateRange ==
    pc = "normed" /\ Flat(call.data) =>
        /\ last.fits =>
              /\ last.normalised
              /\ last.img.shape = call.data.shape
              /\ DOMAIN last.img.pix = DOMAIN call.data.samples
              /\ \A i \in DOMAIN last.img.pix : last.img.pix[i] = 0
        /\ call.io = "ok" /\ (call.resize_to = NoShape \/ ResizeOK(call.resize_to)) =>
              last.fits /\ last.png /\ ~last.printed

\* a flat band of several samples, some of them not-a-number, was written in
\* both formats
C9_Witness ==
    /\ pc = "normed"
    /\ Flat(call.data)
    /\ Product(call.data.shape) >= 2
    /\ \E i, j \in DOMAIN call.data.samples :
          call.data.samples[i].nan /\ ~call.data.samples[j].nan
    /\ last.fits /\ last.png
    /\ call.resize_to # NoShape

-----------------------------------------------------------------------------
(* C10 *)

\* C10: a call that returns (False, message) has made no _save_image call,
\* so has written no .fits and no .png; and from the first _save_image call
\* on the call can only return success.
C10_FailureBeforeFirstBand ==
    /\ pc = "print" /\ ~ret.success => saves = <<>>
    /\ pc \in {"save", "print"} /\ saves # <<>> =>
          DecomposedOK /\ (pc = "print" => ret.success)
    /\ pc \in {"open", "check", "mkdir", "decompose"} => saves = <<>>

\* a call failed at the decomposition, after its folder was made, and wrote
\* nothing
C10_Witness ==
    /\ pc = "print"
    /\ ~ret.success
    /\ FolderOK
    /\ ret.msg = WaveletError
    /\ saves = <<>>

====
